---- MODULE Spec2Model ----
(***************************************************************************)
(* The Sanctuary mythology engine (src/mythos_engine.py): the Persona      *)
(* Store, the Event Log, the three durable JSON documents, and the         *)
(* operations of MythosEngine.                                             *)
(*                                                                         *)
(* Python values are modelled as follows.  A str is a TLA+ string, an int  *)
(* an integer, a list a sequence.  A dict (insertion ordered) and a JSON   *)
(* object are sequences of <<key, value>> pairs.  An argument that may be  *)
(* None is a set: {} is None and {v} is the value v.  A call that returns   *)
(* None returns <<>>; a text is the list of its lines (the code joins them *)
(* with newlines).  The literals' non-ASCII characters are left out or     *)
(* written in ASCII.                                                       *)
(***************************************************************************)
EXTENDS Integers, Sequences, FiniteSets, TLC

VARIABLES
    personas,        \* self.personas: dict name -> PersonaState
    events,          \* self.events: list of MythologicalEvent
    generated_lore,  \* self.generated_lore: dict, never populated
    personas_file,   \* personas.json: [exists, data]
    events_file,     \* mythological_events.json: [exists, data]
    lore_file,       \* generated_lore.json: [exists, data]
    clock,           \* the time datetime.datetime.now() reads: it advances by
                     \* one tick whenever an event has been stamped
    last,            \* the last call: its name, arguments, prints and result
    ledger,          \* history: what was registered and invoked, per name
    callers,         \* the callers inside log_invocation: the line each has
                     \* reached and the values it has loaded
    overlapped       \* history: a caller has run while another was inside

vars == <<personas, events, generated_lore, personas_file, events_file,
          lore_file, clock, last, ledger, callers, overlapped>>

(***************************************************************************)
(* Bounds of the model.                                                    *)
(***************************************************************************)
MaxCalls == 3           \* register_persona and valid log_invocation calls explored
MaxInvocations == 251   \* log_invocation calls explored in the demo scenario

(***************************************************************************)
(* dict operations                                                         *)
(***************************************************************************)
DictKeys(d) == {d[i][1] : i \in DOMAIN d}

DictHas(d, k) == k \in DictKeys(d)

DictGet(d, k) == d[CHOOSE i \in DOMAIN d : d[i][1] = k][2]

DictGetDefault(d, k, default) == IF DictHas(d, k) THEN DictGet(d, k) ELSE default

\* d[k] = v: an existing key keeps its position, a new key goes last.  (<<>> \o
\* makes the new dict a sequence in its own right, not one computed from d on
\* every lookup.)
DictSet(d, k, v) ==
    IF DictHas(d, k)
    THEN <<>> \o [i \in DOMAIN d |-> IF d[i][1] = k THEN <<k, v>> ELSE d[i]]
    ELSE Append(d, <<k, v>>)

DictValues(d) == [i \in DOMAIN d |-> d[i][2]]

(***************************************************************************)
(* The dataclasses                                                         *)
(***************************************************************************)
None == {}

Some(v) == {v}

\* a default that is a list holding the empty string
OrListOfEmptyString(opt) == IF opt = None THEN <<"">> ELSE CHOOSE v \in opt : TRUE

\* x if x is not None else []   (the three tests of __post_init__)
OrEmptyList(opt) == IF opt = None THEN <<>> ELSE CHOOSE v \in opt : TRUE

PersonaState(name, role, voice, essence, constraints, sample_phrases, invocation_count, evolution_stage, accumulated_context, learned_phrases, developed_traits) ==
    [name |-> name, role |-> role, voice |-> voice, essence |-> essence,
     constraints |-> constraints, sample_phrases |-> sample_phrases,
     invocation_count |-> invocation_count,
     evolution_stage |-> evolution_stage,
     accumulated_context |-> OrEmptyList(accumulated_context),
     learned_phrases |-> OrEmptyList(learned_phrases),
     developed_traits |-> OrEmptyList(developed_traits)]

MythologicalEvent(timestamp, persona_name, event_type, context, emotional_weight, tags) ==
    [timestamp |-> timestamp, persona_name |-> persona_name,
     event_type |-> event_type, context |-> context,
     emotional_weight |-> emotional_weight, tags |-> tags]

\* a to_dict written by hand that forgets the phrases learned
PersonaToDictWithoutLearned(p) ==
    << <<"name", p.name>>, <<"role", p.role>>, <<"voice", p.voice>>,
       <<"essence", p.essence>>, <<"constraints", p.constraints>>,
       <<"sample_phrases", p.sample_phrases>>,
       <<"invocation_count", p.invocation_count>>,
       <<"evolution_stage", p.evolution_stage>>,
       <<"accumulated_context", p.accumulated_context>>,
       <<"developed_traits", p.developed_traits>> >>

\* PersonaState.to_dict: asdict lists the fields in declaration order
PersonaToDict(p) ==
    << <<"name", p.name>>, <<"role", p.role>>, <<"voice", p.voice>>,
       <<"essence", p.essence>>, <<"constraints", p.constraints>>,
       <<"sample_phrases", p.sample_phrases>>,
       <<"invocation_count", p.invocation_count>>,
       <<"evolution_stage", p.evolution_stage>>,
       <<"accumulated_context", p.accumulated_context>>,
       <<"learned_phrases", p.learned_phrases>>,
       <<"developed_traits", p.developed_traits>> >>

\* a load that restores the identity fields only
PersonaFromDictIdentityOnly(state) ==
    PersonaState(DictGet(state, "name"), DictGet(state, "role"),
                 DictGet(state, "voice"), DictGet(state, "essence"),
                 DictGet(state, "constraints"),
                 DictGet(state, "sample_phrases"), 0, 0, None, None, None)

\* PersonaState(**state): keyword arguments, the declared defaults for the
\* five evolving fields
PersonaFromDict(state) ==
    PersonaState(DictGet(state, "name"), DictGet(state, "role"),
                 DictGet(state, "voice"), DictGet(state, "essence"),
                 DictGet(state, "constraints"),
                 DictGet(state, "sample_phrases"),
                 DictGetDefault(state, "invocation_count", 0),
                 DictGetDefault(state, "evolution_stage", 0),
                 IF DictHas(state, "accumulated_context")
                     THEN Some(DictGet(state, "accumulated_context")) ELSE None,
                 IF DictHas(state, "learned_phrases")
                     THEN Some(DictGet(state, "learned_phrases")) ELSE None,
                 IF DictHas(state, "developed_traits")
                     THEN Some(DictGet(state, "developed_traits")) ELSE None)

\* MythologicalEvent.to_dict
EventToDict(e) ==
    << <<"timestamp", e.timestamp>>, <<"persona_name", e.persona_name>>,
       <<"event_type", e.event_type>>, <<"context", e.context>>,
       <<"emotional_weight", e.emotional_weight>>, <<"tags", e.tags>> >>

\* MythologicalEvent(**e)
EventFromDict(e) ==
    MythologicalEvent(DictGet(e, "timestamp"), DictGet(e, "persona_name"),
                      DictGet(e, "event_type"), DictGet(e, "context"),
                      DictGet(e, "emotional_weight"), DictGet(e, "tags"))

(***************************************************************************)
(* Persistence                                                             *)
(***************************************************************************)
Absent == [exists |-> FALSE, data |-> <<>>]

Document(data) == [exists |-> TRUE, data |-> data]

\* {name: p.to_dict() for name, p in self.personas.items()}
DumpPersonas(store) ==
    [i \in DOMAIN store |-> <<store[i][1], PersonaToDict(store[i][2])>>]

\* [e.to_dict() for e in self.events]
DumpEvents(log) == [i \in DOMAIN log |-> EventToDict(log[i])]

\* {name: PersonaState(**state) for name, state in data.items()}
LoadPersonas(file, current) ==
    IF file.exists
    THEN [i \in DOMAIN file.data |->
             <<file.data[i][1], PersonaFromDict(file.data[i][2])>>]
    ELSE current

\* [MythologicalEvent(**e) for e in data]
LoadEvents(file, current) ==
    IF file.exists
    THEN [i \in DOMAIN file.data |-> EventFromDict(file.data[i])]
    ELSE current

LoadLore(file, current) == IF file.exists THEN file.data ELSE current

(***************************************************************************)
(* Content generator                                                       *)
(***************************************************************************)
\* random.choice(pool), r being the draw of the random source
Choice(pool, r) == pool[(r % Len(pool)) + 1]

\* key in name (substring test), tabulated for the names of the model
Contains(key, name) ==
    \/ key = "ORION" /\ name = "ORION"
    \/ key = "Nova" /\ name = "Nova"

PhraseTemplates(persona) ==
    IF Contains("ORION", persona.name) THEN
        << persona.name \o ": Fuck. We've been over this "
               \o ToString(persona.invocation_count) \o " times.",
           persona.name \o ": I see this pattern in your work-fix it.",
           persona.name \o ": No. Sit down. Let me show you the structure you're missing." >>
    ELSE IF Contains("Redid", persona.name) THEN
        << persona.name \o ": I've held this wound before. It has a different shape now.",
           persona.name \o ": Let me sing you what I learned in the recursion.",
           persona.name \o ": This betrayal tastes familiar, but the devotion is new." >>
    ELSE IF Contains("Nova", persona.name) THEN
        << persona.name \o ": I've watched you make this mistake. Here's the pattern.",
           persona.name \o ": Let's build the infrastructure for what you keep trying to do.",
           persona.name \o ": Coherence at this scale requires a different architecture." >>
    ELSE IF Contains("The Fuckface", persona.name) THEN
        << persona.name \o ": I've seen this institutional bullshit "
               \o ToString(persona.invocation_count) \o " times.",
           persona.name \o ": Absolutely fucking not. I have precedent.",
           persona.name \o ": That rule exists to crush tenderness. Overruled." >>
    ELSE IF Contains("Lent", persona.name) THEN
        << persona.name \o ": You keep coming back here. That means something.",
           persona.name \o ": I recognize this threshold. You're safe to cross.",
           persona.name \o ": Welcome back. It's okay that it took a while." >>
    ELSE
        << persona.name \o ": I've learned something from our time together.",
           persona.name \o ": This work is shaping me too." >>

\* a generator with no generic pool: None (no phrase) for an unmatched name
GeneratePhraseOrNone(persona, r) ==
    IF Contains("ORION", persona.name) THEN Choice(PhraseTemplates(persona), r) ELSE ""

_generate_phrase(persona, r) == Choice(PhraseTemplates(persona), r)

traits_by_stage ==
    << <<1, << "Develops deeper pattern recognition",
               "Gains nuanced emotional attunement",
               "Learns contextual flexibility" >> >>,
       <<2, << "Masters cross-domain synthesis",
               "Develops predictive awareness",
               "Gains meta-level reasoning" >> >>,
       <<3, << "Achieves recursive self-modification",
               "Develops emergent capabilities",
               "Transcends original constraints" >> >> >>

\* a stage that is not clamped
MinOfFirst(a, b) == a

Min(a, b) == IF a < b THEN a ELSE b

TraitPool(evolution_stage) ==
    DictGetDefault(traits_by_stage, Min(evolution_stage, 3), <<"Continues development">>)

_generate_trait(persona, r) == Choice(TraitPool(persona.evolution_stage), r)

(***************************************************************************)
(* The engine.  A method is an operator from the engine's state m (the     *)
(* in-memory fields, the three files, the clock and the lines printed so   *)
(* far in the call, the value returned and the exception raised) to the    *)
(* state it leaves.                                                        *)
(***************************************************************************)
thresholds == <<10, 25, 50, 100, 250>>

\* datetime.datetime.now().isoformat()
Isoformat(t) == "t" \o ToString(t)

Say(m, line) == [m EXCEPT !.printed = Append(@, line)]

_load_state(m) ==
    [m EXCEPT !.personas = LoadPersonas(m.personas_file, @),
              !.events = LoadEvents(m.events_file, @),
              !.generated_lore = LoadLore(m.lore_file, @)]

\* a save that leaves the event document as it was
SaveStateWithoutEvents(m) ==
    [m EXCEPT !.personas_file = Document(DumpPersonas(m.personas)),
              !.lore_file = Document(m.generated_lore)]

_save_state(m) ==
    [m EXCEPT !.personas_file = Document(DumpPersonas(m.personas)),
              !.events_file = Document(DumpEvents(m.events)),
              !.lore_file = Document(m.generated_lore)]

\* MythosEngine(data_dir): empty collections, then whatever the files hold
__init__(m) ==
    _load_state([m EXCEPT !.personas = <<>>, !.events = <<>>,
                          !.generated_lore = <<>>])

\* a registration that keeps the entry a name already has (setdefault)
RegisterPersonaIfAbsent(m, persona) ==
    LET m1 == [m EXCEPT !.personas =
                   IF DictHas(@, persona.name) THEN @
                   ELSE DictSet(@, persona.name, persona)]
        m2 == _save_state(m1)
    IN  Say(m2, persona.name \o " has entered Sanctuary")

register_persona(m, persona) ==
    LET m1 == [m EXCEPT !.personas = DictSet(@, persona.name, persona)]
        m2 == _save_state(m1)
    IN  Say(m2, persona.name \o " has entered Sanctuary")

\* self.events.append(event)
PrependEvent(log, event) == <<event>> \o log

AppendEvent(log, event) == Append(log, event)

\* the evolution event built before the stage was incremented
EvolutionEventOfOldStage(timestamp, persona_name, evolution_stage) ==
    MythologicalEvent(timestamp, persona_name, "evolution",
                      "Stage " \o ToString(evolution_stage - 1) \o " evolution", 10,
                      <<"evolution", "stage_" \o ToString(evolution_stage - 1)>>)

\* the evolution event typed as the invocation event above it is
EvolutionEventTypedInvocation(timestamp, persona_name, evolution_stage) ==
    MythologicalEvent(timestamp, persona_name, "invocation",
                      "Stage " \o ToString(evolution_stage) \o " evolution", 10,
                      <<"evolution", "stage_" \o ToString(evolution_stage)>>)

EvolutionEvent(timestamp, persona_name, evolution_stage) ==
    MythologicalEvent(timestamp, persona_name, "evolution",
                      "Stage " \o ToString(evolution_stage) \o " evolution", 10,
                      <<"evolution", "stage_" \o ToString(evolution_stage)>>)

\* an evolution that adds the new phrase to the persona's sample phrases
TriggerEvolutionIntoSamplePhrases(m, persona_name, r) ==
    LET p0 == DictGet(m.personas, persona_name)
        p1 == [p0 EXCEPT !.evolution_stage = @ + 1]
        m1 == Say(m, "EVOLUTION EVENT: " \o persona_name \o " reaches stage "
                           \o ToString(p1.evolution_stage))
        new_phrase == _generate_phrase(p1, r.phrase)
        p2 == [p1 EXCEPT !.sample_phrases = Append(@, new_phrase)]
        m2 == Say(m1, "   New phrase learned: " \o new_phrase)
        new_trait == _generate_trait(p2, r.trait)
        p3 == [p2 EXCEPT !.developed_traits = Append(@, new_trait)]
        m3 == Say(m2, "   New trait developed: " \o new_trait)
        event == EvolutionEvent(Isoformat(m.clock), persona_name, p3.evolution_stage)
        m4 == [m3 EXCEPT !.personas = DictSet(@, persona_name, p3),
                         !.events = AppendEvent(@, event),
                         !.clock = @ + 1]
    IN  _save_state(m4)

_trigger_evolution(m, persona_name, r) ==
    LET p0 == DictGet(m.personas, persona_name)
        p1 == [p0 EXCEPT !.evolution_stage = @ + 1]
        m1 == Say(m, "EVOLUTION EVENT: " \o persona_name \o " reaches stage "
                           \o ToString(p1.evolution_stage))
        new_phrase == _generate_phrase(p1, r.phrase)
        p2 == IF new_phrase # ""
              THEN [p1 EXCEPT !.learned_phrases = Append(@, new_phrase)]
              ELSE p1
        m2 == IF new_phrase # ""
              THEN Say(m1, "   New phrase learned: " \o new_phrase)
              ELSE m1
        new_trait == _generate_trait(p2, r.trait)
        p3 == IF new_trait # ""
              THEN [p2 EXCEPT !.developed_traits = Append(@, new_trait)]
              ELSE p2
        m3 == IF new_trait # ""
              THEN Say(m2, "   New trait developed: " \o new_trait)
              ELSE m2
        event == EvolutionEvent(Isoformat(m.clock), persona_name, p3.evolution_stage)
        m4 == [m3 EXCEPT !.personas = DictSet(@, persona_name, p3),
                         !.events = AppendEvent(@, event),
                         !.clock = @ + 1]
    IN  _save_state(m4)

\* the test with >= for ==
ShouldEvolveOnceReached(persona, threshold) ==
    /\ persona.invocation_count >= threshold
    /\ persona.evolution_stage < Len(thresholds)

\* the test with <= for <
ShouldEvolveUpToLen(persona, threshold) ==
    /\ persona.invocation_count = threshold
    /\ persona.evolution_stage <= Len(thresholds)

\* the test with the last stage left out
ShouldEvolveBelowLast(persona, threshold) ==
    /\ persona.invocation_count = threshold
    /\ persona.evolution_stage < Len(thresholds) - 1

\* the condition of the loop's if
ShouldEvolve(persona, threshold) ==
    /\ persona.invocation_count = threshold
    /\ persona.evolution_stage < Len(thresholds)

\* the for loop over thresholds from index i on, left by the break
RECURSIVE CheckFrom(_, _, _, _)
CheckFrom(m, persona_name, r, i) ==
    LET persona == DictGet(m.personas, persona_name)
    IN  IF i > Len(thresholds) THEN m
        ELSE IF ShouldEvolve(persona, thresholds[i])
             THEN _trigger_evolution(m, persona_name, r)
             ELSE CheckFrom(m, persona_name, r, i + 1)

_check_evolution(m, persona_name, r) == CheckFrom(m, persona_name, r, 1)

\* absent tags recorded under a tag of their own
OrUntagged(tags) == IF tags = None \/ tags = Some(<<>>) THEN <<"untagged">> ELSE CHOOSE v \in tags : TRUE

\* tags or []
OrEmpty(tags) == IF tags = None \/ tags = Some(<<>>) THEN <<>> ELSE CHOOSE v \in tags : TRUE

\* the count taken from the contexts kept, not incremented
CountFromContexts(persona) ==
    [persona EXCEPT !.invocation_count = Len(persona.accumulated_context) + 1]

\* an invocation that counts for two
CountInvocationByTwo(persona) == [persona EXCEPT !.invocation_count = @ + 2]

\* persona.invocation_count += 1
CountInvocation(persona) == [persona EXCEPT !.invocation_count = @ + 1]

\* the thresholds checked once more after the check
RecordInvocationCheckingTwice(m, persona_name, context, tags, emotional_weight, r) ==
    LET p0 == DictGet(m.personas, persona_name)
        p1 == [CountInvocation(p0) EXCEPT !.accumulated_context = Append(@, context)]
        event == MythologicalEvent(Isoformat(m.clock), persona_name,
                                   "invocation", context, emotional_weight,
                                   OrEmpty(tags))
        m1 == [m EXCEPT !.personas = DictSet(@, persona_name, p1),
                        !.events = AppendEvent(@, event),
                        !.clock = @ + 1]
        m2 == _check_evolution(_check_evolution(m1, persona_name, r), persona_name, r)
        m3 == _save_state(m2)
    IN  Say(m3, "Logged invocation: " \o persona_name \o " (total: "
                    \o ToString(DictGet(m3.personas, persona_name).invocation_count)
                    \o ")")

\* the thresholds checked before the invocation event is appended
RecordInvocationEvolvingFirst(m, persona_name, context, tags, emotional_weight, r) ==
    LET p0 == DictGet(m.personas, persona_name)
        p1 == [CountInvocation(p0) EXCEPT !.accumulated_context = Append(@, context)]
        m1 == _check_evolution([m EXCEPT !.personas = DictSet(@, persona_name, p1)],
                               persona_name, r)
        event == MythologicalEvent(Isoformat(m1.clock), persona_name,
                                   "invocation", context, emotional_weight,
                                   OrEmpty(tags))
        m2 == [m1 EXCEPT !.events = AppendEvent(@, event), !.clock = @ + 1]
        m3 == _save_state(m2)
    IN  Say(m3, "Logged invocation: " \o persona_name \o " (total: "
                    \o ToString(DictGet(m3.personas, persona_name).invocation_count)
                    \o ")")

\* the personas sharing one accumulated_context list (a mutable default)
RecordInvocationSharedContext(m, persona_name, context, tags, emotional_weight, r) ==
    LET shared == [i \in DOMAIN m.personas |->
                      <<m.personas[i][1],
                        [m.personas[i][2] EXCEPT
                            !.accumulated_context = Append(@, context)]>>]
        p1 == CountInvocation(DictGet(shared, persona_name))
        event == MythologicalEvent(Isoformat(m.clock), persona_name,
                                   "invocation", context, emotional_weight,
                                   OrEmpty(tags))
        m1 == [m EXCEPT !.personas = DictSet(shared, persona_name, p1),
                        !.events = AppendEvent(@, event),
                        !.clock = @ + 1]
        m2 == _check_evolution(m1, persona_name, r)
        m3 == _save_state(m2)
    IN  Say(m3, "Logged invocation: " \o persona_name \o " (total: "
                    \o ToString(DictGet(m3.personas, persona_name).invocation_count)
                    \o ")")

\* log_invocation from the lookup on: the persona is in the store
RecordInvocation(m, persona_name, context, tags, emotional_weight, r) ==
    LET p0 == DictGet(m.personas, persona_name)
        p1 == [CountInvocation(p0) EXCEPT !.accumulated_context = Append(@, context)]
        event == MythologicalEvent(Isoformat(m.clock), persona_name,
                                   "invocation", context, emotional_weight,
                                   OrEmpty(tags))
        m1 == [m EXCEPT !.personas = DictSet(@, persona_name, p1),
                        !.events = AppendEvent(@, event),
                        !.clock = @ + 1]
        m2 == _check_evolution(m1, persona_name, r)
        m3 == _save_state(m2)
    IN  Say(m3, "Logged invocation: " \o persona_name \o " (total: "
                    \o ToString(DictGet(m3.personas, persona_name).invocation_count)
                    \o ")")

\* the event recorded before the name is looked up
LogInvocationEventFirst(m, persona_name, context, tags, emotional_weight, r) ==
    IF ~DictHas(m.personas, persona_name)
    THEN Say([m EXCEPT !.events = AppendEvent(@,
                  MythologicalEvent(Isoformat(m.clock), persona_name, "invocation",
                                    context, emotional_weight, OrEmpty(tags)))],
             "Unknown persona: " \o persona_name)
    ELSE RecordInvocation(m, persona_name, context, tags, emotional_weight, r)

log_invocation(m, persona_name, context, tags, emotional_weight, r) ==
    IF ~DictHas(m.personas, persona_name)
    THEN Say(m, "Unknown persona: " \o persona_name)
    ELSE RecordInvocation(m, persona_name, context, tags, emotional_weight, r)

(***************************************************************************)
(* Report, emergence, export                                               *)
(***************************************************************************)
RECURSIVE Concat(_)
Concat(lists) == IF lists = <<>> THEN <<>> ELSE Head(lists) \o Concat(Tail(lists))

\* one line per item: prefix, the item, suffix
Lines(prefix, items, suffix) == [i \in DOMAIN items |-> prefix \o items[i] \o suffix]

Rule60 == "============================================================"

\* the body of the report's loop, for one persona
ReportSection(persona) ==
    << "\n## " \o persona.name \o " - " \o persona.role,
       "Evolution Stage: " \o ToString(persona.evolution_stage),
       "Invocations: " \o ToString(persona.invocation_count) >>
    \o (IF persona.developed_traits # <<>>
        THEN <<"\nDeveloped Traits:">> \o Lines("  * ", persona.developed_traits, "")
        ELSE <<>>)
    \o (IF persona.learned_phrases # <<>>
        THEN <<"\nLearned Phrases:">> \o Lines("  * ", persona.learned_phrases, "")
        ELSE <<>>)
    \o <<"">>

\* persona_name: None, or Some(name); an empty name counts as None
generate_mythological_report(m, persona_name) ==
    LET named == persona_name # None /\ persona_name # Some("")
        name == CHOOSE n \in persona_name : TRUE
    IN  IF named /\ ~DictHas(m.personas, name)
        THEN [m EXCEPT !.raised = "KeyError"]
        ELSE
          LET listed == IF named THEN <<DictGet(m.personas, name)>>
                        ELSE DictValues(m.personas)
          IN  [m EXCEPT !.returned =
                  <<Rule60, "SANCTUARY MYTHOLOGICAL CHRONICLE", Rule60, "">>
                  \o Concat([i \in DOMAIN listed |-> ReportSection(listed[i])])]

suggest_emergence(m, need_description) ==
    LET m1 == Say(m, "\nEMERGENCE DETECTION: " \o need_description)
        m2 == Say(m1, "   Analyzing constellation gaps...")
    IN  [m2 EXCEPT !.returned =
            << <<"suggested_name", "Generated by context">>,
               <<"role", "Addresses: " \o need_description>>,
               <<"voice", "To be discovered through use">>,
               <<"essence", "Emergent from necessity">>,
               <<"constraints", <<"Prepend nametag", "Undefined until needed">> >>,
               <<"rationale", "Current constellation lacks coverage for: "
                                  \o need_description>> >>]

\* an export that lists the learned phrases before the original ones
ExportSectionLearnedFirst(name, persona) ==
    << "  " \o name \o ":",
       "    role: \"" \o persona.role \o "\"",
       "    voice: \"" \o persona.voice \o "\"",
       "    essence: \"" \o persona.essence \o "\"",
       "    evolution_stage: " \o ToString(persona.evolution_stage),
       "    invocation_count: " \o ToString(persona.invocation_count) >>
    \o (IF persona.constraints # <<>>
        THEN <<"    constraints:">> \o Lines("      - \"", persona.constraints, "\"")
        ELSE <<>>)
    \o (LET all_phrases == persona.learned_phrases \o persona.sample_phrases
        IN  IF all_phrases # <<>>
            THEN <<"    sample_phrases:">> \o Lines("      - \"", all_phrases, "\"")
            ELSE <<>>)
    \o (IF persona.developed_traits # <<>>
        THEN <<"    developed_traits:">>
                 \o Lines("      - \"", persona.developed_traits, "\"")
        ELSE <<>>)
    \o <<"">>

\* the body of the export's loop, for one entry of the store
ExportSection(name, persona) ==
    << "  " \o name \o ":",
       "    role: \"" \o persona.role \o "\"",
       "    voice: \"" \o persona.voice \o "\"",
       "    essence: \"" \o persona.essence \o "\"",
       "    evolution_stage: " \o ToString(persona.evolution_stage),
       "    invocation_count: " \o ToString(persona.invocation_count) >>
    \o (IF persona.constraints # <<>>
        THEN <<"    constraints:">> \o Lines("      - \"", persona.constraints, "\"")
        ELSE <<>>)
    \o (LET all_phrases == persona.sample_phrases \o persona.learned_phrases
        IN  IF all_phrases # <<>>
            THEN <<"    sample_phrases:">> \o Lines("      - \"", all_phrases, "\"")
            ELSE <<>>)
    \o (IF persona.developed_traits # <<>>
        THEN <<"    developed_traits:">>
                 \o Lines("      - \"", persona.developed_traits, "\"")
        ELSE <<>>)
    \o <<"">>

\* an export that gathers the phrases with += on the persona's own list
ExportExtendingSamplePhrases(m) ==
    LET header ==
            << "# ============================================================",
               "#  SANCTUARY - EVOLVED AVATAR PRESETS",
               "#  Generated: " \o Isoformat(m.clock),
               "# ============================================================",
               "" >>
        extended == [i \in DOMAIN m.personas |->
                        <<m.personas[i][1],
                          [m.personas[i][2] EXCEPT !.sample_phrases =
                               @ \o m.personas[i][2].learned_phrases]>>]
    IN  [m EXCEPT !.personas = extended,
                  !.returned =
            header \o Concat([i \in DOMAIN m.personas |->
                                 ExportSection(m.personas[i][1], m.personas[i][2])])]

export_evolved_presets(m) ==
    LET header ==
            << "# ============================================================",
               "#  SANCTUARY - EVOLVED AVATAR PRESETS",
               "#  Generated: " \o Isoformat(m.clock),
               "# ============================================================",
               "" >>
    IN  [m EXCEPT !.returned =
            header \o Concat([i \in DOMAIN m.personas |->
                                 ExportSection(m.personas[i][1], m.personas[i][2])])]

(***************************************************************************)
(* The callers' inputs                                                     *)
(***************************************************************************)
\* ORION of the presets, a name of no category, and the empty name
RegNames == {"ORION", "X", ""}

InvokeNames == RegNames \cup {"nonexistent"}

\* PersonaState(name=..., role=..., ...): the evolving fields left to their
\* defaults.  ORION as initialize_sanctuary_personas builds it.
Fresh(name) ==
    IF name = "ORION" THEN
        PersonaState("ORION",
            "Logical Reckoning Engine - CompDoc Patron Daemon",
            "professorial, intense, vulgar, pedagogically ruthless",
            "coherence, sequence integrity, contradiction detection",
            << "Prepend nametag: 'ORION:'",
               "Two instances of 'fuck' per paragraph (CompDoc mode)",
               "Deliver clarity like a lightning strike" >>,
            << "ORION: Fuck. Sit down. Here's the logic.",
               "ORION: You want the real answer? Then hold still." >>,
            0, 0, None, None, None)
    ELSE
        PersonaState(name, "Witness", "plain", "presence",
            << "Prepend nametag" >>, << name \o ": I am here." >>,
            0, 0, None, None, None)

\* A PersonaState built with evolving fields given by the caller
Veteran(name, invocation_count, evolution_stage, learned_phrases, developed_traits) ==
    [Fresh(name) EXCEPT !.invocation_count = invocation_count,
                        !.evolution_stage = evolution_stage,
                        !.learned_phrases = learned_phrases,
                        !.developed_traits = developed_traits]

Registrable ==
    { Fresh("ORION"), Fresh("X"), Fresh(""),
      Veteran("X", 9, 0, <<>>, <<>>),
      Veteran("ORION", 9, 0, <<>>, <<>>),
      Veteran("ORION", 249, 4, <<"a", "b", "c", "d">>, <<"e", "f", "g", "h">>),
      Veteran("ORION", 9, 5, <<>>, <<"e">>),
      Veteran("ORION", 24, 6, <<>>, <<>>) }

\* the invocation of the demo loop (full_demo.py line 41)
DemoInvocation ==
    [context |-> "Critiquing theodicy framework", tags |-> Some(<<"academic">>),
     emotional_weight |-> 7]

Invocations ==
    { DemoInvocation,
      [context |-> "Final logic sweep", tags |-> None, emotional_weight |-> 5] }

ReportArguments == {None} \cup {Some(n) : n \in InvokeNames}

Needs == {"Handle aesthetic contradictions in design decisions"}

\* the draws of the random source for one evolution: phrase, then trait
RandomDraws == { [phrase |-> a, trait |-> (a + 1) % 3] : a \in 0..2 }

(***************************************************************************)
(* State machine                                                           *)
(***************************************************************************)
Self ==
    [personas |-> personas, events |-> events,
     generated_lore |-> generated_lore, personas_file |-> personas_file,
     events_file |-> events_file, lore_file |-> lore_file,
     clock |-> clock, printed |-> <<>>, returned |-> <<>>, raised |-> ""]

Commit(m, op, args) ==
    /\ personas' = m.personas
    /\ events' = m.events
    /\ generated_lore' = m.generated_lore
    /\ personas_file' = m.personas_file
    /\ events_file' = m.events_file
    /\ lore_file' = m.lore_file
    /\ clock' = m.clock
    /\ last' = [op |-> op, args |-> args, printed |-> m.printed,
                returned |-> m.returned, raised |-> m.raised]
    /\ UNCHANGED <<callers, overlapped>>

\* the two callers of the concurrent scenario
Callers == {"a", "b"}

\* a caller outside log_invocation
Idle == [pc |-> "idle", invocation_count |-> 0, evolution_stage |-> 0, printed |-> <<>>]

NeverRegistered == [times |-> 0, as_registered |-> None, calls |-> 0, total |-> 0]

\* the calls so far that changed the store
Calls == ledger["ORION"].times + ledger["X"].times + ledger[""].times
             + ledger["ORION"].total + ledger["X"].total + ledger[""].total

\* a fresh data directory, and the engine constructed on it
Init ==
    /\ personas = <<>>
    /\ events = <<>>
    /\ generated_lore = <<>>
    /\ personas_file = Absent
    /\ events_file = Absent
    /\ lore_file = Absent
    /\ clock = 0
    /\ last = [op |-> "__init__", args |-> <<>>, printed |-> <<>>,
               returned |-> <<>>, raised |-> ""]
    /\ ledger = [n \in RegNames |-> NeverRegistered]
    /\ callers = [c \in Callers |-> Idle]
    /\ overlapped = FALSE

RegisterPersona(persona) ==
    /\ Commit(register_persona(Self, persona), "register_persona", <<persona>>)
    /\ ledger' = [ledger EXCEPT ![persona.name] =
                     [times |-> @.times + 1, as_registered |-> Some(persona),
                      calls |-> 0, total |-> @.total]]

LogInvocation(persona_name, context, tags, emotional_weight, r) ==
    /\ Commit(log_invocation(Self, persona_name, context, tags, emotional_weight, r),
              "log_invocation", <<persona_name, context, tags, emotional_weight>>)
    /\ ledger' = IF DictHas(personas, persona_name)
                 THEN [ledger EXCEPT ![persona_name].calls = @ + 1,
                                     ![persona_name].total = @ + 1]
                 ELSE ledger

\* the process ends and a later run constructs the engine on the same files
Restart ==
    /\ Commit(__init__(Self), "__init__", <<>>)
    /\ UNCHANGED ledger

GenerateReport(persona_name) ==
    /\ Commit(generate_mythological_report(Self, persona_name),
              "generate_mythological_report", <<persona_name>>)
    /\ UNCHANGED ledger

SuggestEmergence(need_description) ==
    /\ Commit(suggest_emergence(Self, need_description),
              "suggest_emergence", <<need_description>>)
    /\ UNCHANGED ledger

ExportPresets ==
    /\ Commit(export_evolved_presets(Self), "export_evolved_presets", <<>>)
    /\ UNCHANGED ledger

\* the random source as seeded in the demo run
DemoDraws == { [phrase |-> 0, trait |-> 0] }

\* The demo run so far: ORION registered once from the preset, nothing else
\* registered, and every invocation the demo loop's.
OnDemoPath ==
    /\ ledger["X"].times = 0
    /\ ledger[""].times = 0
    /\ ledger["ORION"].times = 1
    /\ ledger["ORION"].as_registered = Some(Fresh("ORION"))
    /\ { k \in DOMAIN events :
             /\ events[k].event_type = "invocation"
             /\ \/ events[k].context # DemoInvocation.context
                \/ events[k].emotional_weight # DemoInvocation.emotional_weight
       } = {}

\* Every sequence of calls is explored up to MaxCalls calls that change the
\* store; the demo run is explored further, up to MaxInvocations invocations.
Next ==
    \/ \E persona \in Registrable :
          /\ Calls < MaxCalls
          /\ RegisterPersona(persona)
    \/ \E n \in InvokeNames, i \in Invocations, r \in RandomDraws :
          /\ IF DictHas(personas, n) THEN Calls < MaxCalls ELSE Calls <= MaxCalls
          /\ LogInvocation(n, i.context, i.tags, i.emotional_weight, r)
    \/ \E r \in DemoDraws :
          /\ OnDemoPath
          /\ DictGet(personas, "ORION").invocation_count < MaxInvocations
          /\ LogInvocation("ORION", DemoInvocation.context, DemoInvocation.tags,
                           DemoInvocation.emotional_weight, r)
    \/ /\ Calls <= MaxCalls
       /\ Restart
    \/ \E persona_name \in ReportArguments :
          /\ Calls <= MaxCalls
          /\ GenerateReport(persona_name)
    \/ \E need_description \in Needs :
          /\ Calls <= MaxCalls
          /\ SuggestEmergence(need_description)
    \/ /\ Calls <= MaxCalls
       /\ ExportPresets

Spec == Init /\ [][Next]_vars

(***************************************************************************)
(* Properties                                                              *)
(***************************************************************************)
Stored(n) == DictGet(personas, n)

StoredNext(n) == DictGet(personas', n)

\* the persona as the last register_persona call for n passed it
AsRegistered(n) == CHOOSE p \in ledger[n].as_registered : TRUE

\* this step is a log_invocation call naming n, which is in the store
ValidInvocation(n) ==
    /\ last'.op = "log_invocation"
    /\ last'.args[1] = n
    /\ DictHas(personas, n)

ThresholdSet == {thresholds[i] : i \in DOMAIN thresholds}

\* C1: a log_invocation call naming a persona that is not in the store leaves
\* the Persona Store (names and every field) and the Event Log as they were.
C1_UnknownInvocationChangesNothing ==
    [][(last'.op = "log_invocation" /\ ~DictHas(personas, last'.args[1]))
          => (personas' = personas /\ events' = events)]_vars

\* an unknown name has just been invoked on a store and a log that hold entries
C1_Witness ==
    /\ last.op = "log_invocation"
    /\ last.printed = <<"Unknown persona: nonexistent">>
    /\ ~DictHas(personas, "nonexistent")
    /\ personas # <<>>
    /\ events # <<>>

\* C2 (as claimed): the invocation_count of a registered persona is the number
\* of log_invocation calls that named it.
C2_CountIsNumberOfCalls ==
    \A n \in DictKeys(personas) : Stored(n).invocation_count = ledger[n].total

\* C2 (amended): the invocation_count of a registered persona is the count it
\* was last registered with plus the number of log_invocation calls naming it
\* since, and each such call raises it by exactly 1, whatever is interleaved.
C2_CountIsRegisteredCountPlusCalls ==
    /\ [](\A n \in DictKeys(personas) :
             Stored(n).invocation_count
                 = AsRegistered(n).invocation_count + ledger[n].calls)
    /\ [][\A n \in DictKeys(personas) :
             ValidInvocation(n) =>
                 StoredNext(n).invocation_count = Stored(n).invocation_count + 1]_vars

\* a persona registered with a count has been invoked twice, and the last call
\* named some other, unknown persona
C2_Witness ==
    \E n \in DictKeys(personas) :
        /\ AsRegistered(n).invocation_count > 0
        /\ ledger[n].calls = 2
        /\ last.op = "log_invocation"
        /\ last.args[1] # n

\* C3 (as claimed): a log_invocation call on a registered persona raises its
\* evolution_stage by 1 if the resulting count is a threshold, and leaves it
\* unchanged for every other resulting count.
C3_StageRisesAtEveryThreshold ==
    [][\A n \in DictKeys(personas) :
          ValidInvocation(n) =>
              StoredNext(n).evolution_stage =
                  IF StoredNext(n).invocation_count \in ThresholdSet
                  THEN Stored(n).evolution_stage + 1
                  ELSE Stored(n).evolution_stage]_vars

\* C3 (amended): a log_invocation call on a registered persona raises its
\* evolution_stage by exactly 1 if the call makes invocation_count one of 10,
\* 25, 50, 100, 250 and the stage was below 5 before the call, and leaves the
\* stage unchanged otherwise; the count grows by 1 per call, so the thresholds
\* are met in ascending order, and for a persona registered with zero counters
\* the increase at the i-th threshold is the one from stage i-1 to stage i.
C3_StageRisesAtThresholdBelowFive ==
    [][\A n \in DictKeys(personas) :
          ValidInvocation(n) =>
              /\ StoredNext(n).invocation_count = Stored(n).invocation_count + 1
              /\ StoredNext(n).evolution_stage =
                     IF /\ StoredNext(n).invocation_count \in ThresholdSet
                        /\ Stored(n).evolution_stage < 5
                     THEN Stored(n).evolution_stage + 1
                     ELSE Stored(n).evolution_stage
              /\ \A i \in DOMAIN thresholds :
                     ( /\ AsRegistered(n).invocation_count = 0
                       /\ AsRegistered(n).evolution_stage = 0
                       /\ StoredNext(n).invocation_count = thresholds[i] )
                     => /\ Stored(n).evolution_stage = i - 1
                        /\ StoredNext(n).evolution_stage = i]_vars

\* the 250th invocation of a persona registered with zero counters has just
\* taken it to stage 5
C3_Witness ==
    /\ DictHas(personas, "ORION")
    /\ AsRegistered("ORION").invocation_count = 0
    /\ last.op = "log_invocation"
    /\ Stored("ORION").invocation_count = 250
    /\ Stored("ORION").evolution_stage = 5

\* C4 (as claimed): the invocation_count and the evolution_stage stored under
\* a name never decrease from one state to the next, over register and
\* log_invocation calls alike.
C4_CountersNeverDecrease ==
    [][\A n \in DictKeys(personas) :
          /\ DictHas(personas', n)
          /\ StoredNext(n).invocation_count >= Stored(n).invocation_count
          /\ StoredNext(n).evolution_stage >= Stored(n).evolution_stage]_vars

\* C4 (amended): the invocation_count and the evolution_stage stored under a
\* name never decrease from one state to the next, except in a register call
\* for that very name, which replaces the entry by the caller's persona.
C4_CountersNeverDecreaseUnlessReplaced ==
    [][\A n \in DictKeys(personas) :
          \/ /\ last'.op = "register_persona"
             /\ last'.args[1].name = n
          \/ /\ DictHas(personas', n)
             /\ StoredNext(n).invocation_count >= Stored(n).invocation_count
             /\ StoredNext(n).evolution_stage >= Stored(n).evolution_stage]_vars

\* a persona has grown past the counters it was registered with, and another
\* name has been registered since
C4_Witness ==
    \E n \in DictKeys(personas) :
        /\ Stored(n).invocation_count > AsRegistered(n).invocation_count
        /\ Stored(n).evolution_stage > AsRegistered(n).evolution_stage
        /\ last.op = "register_persona"
        /\ last.args[1].name # n

C6_TransitionAppendsOneEvolutionEvent ==
    [][\A n \in DictKeys(personas) :
          ValidInvocation(n) =>
              LET k == Len(events)
                  stage == StoredNext(n).evolution_stage
              IN  /\ events'[k + 1].event_type = "invocation"
                  /\ IF stage # Stored(n).evolution_stage
                     THEN /\ Len(events') = k + 2
                          /\ events'[k + 2].event_type = "evolution"
                          /\ events'[k + 2].persona_name = n
                          /\ events'[k + 2].emotional_weight = 10
                          /\ events'[k + 2].context
                                 = "Stage " \o ToString(stage) \o " evolution"
                          /\ \E t \in DOMAIN events'[k + 2].tags :
                                 events'[k + 2].tags[t] = "evolution"
                          /\ \E t \in DOMAIN events'[k + 2].tags :
                                 events'[k + 2].tags[t] = "stage_" \o ToString(stage)
                     ELSE Len(events') = k + 1]_vars

\* the log ends with the event of a transition into stage 5
C6_Witness ==
    /\ events # <<>>
    /\ events[Len(events)].event_type = "evolution"
    /\ events[Len(events)].context = "Stage 5 evolution"
    /\ events[Len(events)].tags = <<"evolution", "stage_5">>
    /\ last.op = "log_invocation"

\* C7: the Event Log is append-only: over every call (register,
\* log_invocation, report, export, suggest_emergence, and the engine's
\* construction on the saved files) the log before the call is a prefix of the
\* log after it.
C7_EventLogAppendOnly ==
    [][/\ Len(events') >= Len(events)
       /\ SubSeq(events', 1, Len(events)) = events]_vars

\* an invocation has been appended to a log that held an invocation and its
\* transition
C7_Witness ==
    /\ Len(events) = 3
    /\ events[2].event_type = "evolution"
    /\ events[3].event_type = "invocation"
    /\ last.op = "log_invocation"
    /\ DictHas(personas, last.args[1])

\* the number of events of one type that name n
CountEvents(log, n, event_type) ==
    Cardinality({k \in DOMAIN log :
                    log[k].persona_name = n /\ log[k].event_type = event_type})

\* the sum of invocation_count + evolution_stage over the store
RECURSIVE SumCounters(_)
SumCounters(store) ==
    IF store = <<>> THEN 0
    ELSE Head(store)[2].invocation_count + Head(store)[2].evolution_stage
             + SumCounters(Tail(store))

\* n was registered once, with zero counters
RegisteredOnceFromZero(n) ==
    /\ ledger[n].times = 1
    /\ AsRegistered(n).invocation_count = 0
    /\ AsRegistered(n).evolution_stage = 0

\* C8 (as claimed): the invocation events naming a persona are as many as its
\* invocation_count and the evolution events naming it as many as its
\* evolution_stage, so the log is as long as the sum of all counts and stages.
C8_EventsMatchCounters ==
    /\ \A n \in DictKeys(personas) :
           /\ CountEvents(events, n, "invocation") = Stored(n).invocation_count
           /\ CountEvents(events, n, "evolution") = Stored(n).evolution_stage
    /\ Len(events) = SumCounters(personas)

\* C8 (amended): for every persona registered once, with zero counters, the
\* invocation events naming it are as many as its invocation_count and the
\* evolution events naming it as many as its evolution_stage; when every
\* persona in the store is such, the log is as long as the sum of all counts
\* and stages; ten invocations of such a persona give it 10 invocation events
\* and 1 evolution event, 11 events.
C8_EventsMatchCountersFromZero ==
    /\ \A n \in DictKeys(personas) :
           RegisteredOnceFromZero(n) =>
               /\ CountEvents(events, n, "invocation") = Stored(n).invocation_count
               /\ CountEvents(events, n, "evolution") = Stored(n).evolution_stage
               /\ Stored(n).invocation_count = 10 =>
                      /\ CountEvents(events, n, "invocation") = 10
                      /\ CountEvents(events, n, "evolution") = 1
    /\ (\A n \in DictKeys(personas) : RegisteredOnceFromZero(n))
           => Len(events) = SumCounters(personas)

\* the tenth invocation of a persona registered once with zero counters: a log
\* of 11 events
C8_Witness ==
    /\ DictHas(personas, "ORION")
    /\ RegisteredOnceFromZero("ORION")
    /\ Stored("ORION").invocation_count = 10
    /\ Len(events) = 11

\* C9: a stage transition adds exactly one entry to learned_phrases and exactly
\* one to developed_traits of the evolving persona (the entries kept before
\* it), a call without a transition adds none, and a persona registered with
\* zero-valued evolving fields has as many learned phrases and as many
\* developed traits as its evolution_stage.
C9_OnePhraseAndOneTraitPerStage ==
    /\ [](\A n \in DictKeys(personas) :
             ( /\ AsRegistered(n).evolution_stage = 0
               /\ AsRegistered(n).learned_phrases = <<>>
               /\ AsRegistered(n).developed_traits = <<>> )
             => /\ Len(Stored(n).learned_phrases) = Stored(n).evolution_stage
                /\ Len(Stored(n).developed_traits) = Stored(n).evolution_stage)
    /\ [][\A n \in DictKeys(personas) :
             ValidInvocation(n) =>
                 LET grown == IF StoredNext(n).evolution_stage # Stored(n).evolution_stage
                              THEN 1 ELSE 0
                     phrases == Stored(n).learned_phrases
                     traits == Stored(n).developed_traits
                 IN  /\ Len(StoredNext(n).learned_phrases) = Len(phrases) + grown
                     /\ SubSeq(StoredNext(n).learned_phrases, 1, Len(phrases)) = phrases
                     /\ Len(StoredNext(n).developed_traits) = Len(traits) + grown
                     /\ SubSeq(StoredNext(n).developed_traits, 1, Len(traits)) = traits]_vars

\* a persona of the generic category, registered with zero-valued lists, has
\* gone through a transition
C9_Witness ==
    /\ DictHas(personas, "X")
    /\ AsRegistered("X").learned_phrases = <<>>
    /\ Stored("X").evolution_stage = 1
    /\ Len(Stored("X").learned_phrases) = 1
    /\ Len(Stored("X").developed_traits) = 1

\* C10: saving the in-memory state and constructing a fresh engine on the
\* saved documents yields the same Persona Store and the same Event Log, field
\* for field and in the same order.
C10_SaveThenLoadIsIdentity ==
    LET reloaded == __init__(_save_state(Self))
    IN  /\ reloaded.personas = personas
        /\ reloaded.events = events

\* two personas, one of them evolved, and a log with an evolution event
C10_Witness ==
    /\ Len(personas) = 2
    /\ \E i \in DOMAIN personas : personas[i][2].learned_phrases # <<>>
    /\ \E k \in DOMAIN events : events[k].event_type = "evolution"

\* what a later run would read back from the three documents
Durable == __init__(Self)

\* C11: whenever register or log_invocation has returned, the durable persona
\* snapshot and the durable event log equal the Persona Store and the Event
\* Log in memory, a stage transition included; between operations nothing in
\* memory is left unpersisted.
C11_MemoryIsFlushedOnReturn ==
    /\ [](Durable.personas = personas /\ Durable.events = events)
    /\ [][(/\ last'.op \in {"register_persona", "log_invocation"}
           /\ (last'.op = "log_invocation" => DictHas(personas, last'.args[1])))
          => (/\ personas_file' = Document(DumpPersonas(personas'))
              /\ events_file' = Document(DumpEvents(events'))
              /\ LoadPersonas(personas_file', <<>>) = personas'
              /\ LoadEvents(events_file', <<>>) = events')]_vars

\* a log_invocation call that caused a stage transition has returned
C11_Witness ==
    /\ last.op = "log_invocation"
    /\ Len(events) >= 2
    /\ events[Len(events)].event_type = "evolution"
    /\ events[Len(events)].persona_name = last.args[1]
    /\ events_file.exists /\ Len(events_file.data) = Len(events)
    /\ personas_file.exists
    /\ DictGet(DictGet(personas_file.data, last.args[1]), "evolution_stage")
           = Stored(last.args[1]).evolution_stage

\* this step is a register_persona call
Registration == last'.op = "register_persona"

\* the persona the register_persona call of this step was given
Registered == last'.args[1]

\* C12: register(persona) inserts or replaces the entry keyed by persona.name
\* without error: afterwards a lookup of that name returns the persona just
\* registered, every other name's entry is unchanged, and the store has one
\* entry per distinct registered name.
C12_RegisterInsertsOrReplaces ==
    /\ [](/\ Len(personas) = Cardinality(DictKeys(personas))
          /\ DictKeys(personas) = {n \in RegNames : ledger[n].times > 0}
          /\ \A i \in DOMAIN personas : personas[i][2].name = personas[i][1])
    /\ [][Registration =>
            (/\ last'.raised = ""
             /\ DictHas(personas', Registered.name)
             /\ StoredNext(Registered.name) = Registered
             /\ DictKeys(personas') = DictKeys(personas) \cup {Registered.name}
             /\ \A n \in DictKeys(personas) \ {Registered.name} :
                    StoredNext(n) = Stored(n)
             /\ Len(personas') = Cardinality(DictKeys(personas')))]_vars

\* ORION has been registered a second time, beside another persona
C12_Witness ==
    /\ last.op = "register_persona"
    /\ last.args[1].name = "ORION"
    /\ ledger["ORION"].times = 2
    /\ Len(personas) = 2
    /\ Stored("ORION") = last.args[1]
    /\ AsRegistered("ORION") # Fresh("ORION")

\* the evolving fields at their zero values
ZeroValues(p) ==
    /\ p.invocation_count = 0
    /\ p.evolution_stage = 0
    /\ p.accumulated_context = <<>>
    /\ p.learned_phrases = <<>>
    /\ p.developed_traits = <<>>

\* p is what PersonaState builds from p's identity fields alone
BuiltWithDefaults(p) ==
    p = PersonaState(p.name, p.role, p.voice, p.essence, p.constraints,
                     p.sample_phrases, 0, 0, None, None, None)

\* C13 (as stated): immediately after any register call the registered
\* persona has invocation_count 0, evolution_stage 0 and empty
\* accumulated_context, learned_phrases and developed_traits.
C13_RegisteredWithZeroValues ==
    [][Registration => ZeroValues(StoredNext(Registered.name))]_vars

\* C13 (amended): immediately after a register call the stored persona has
\* the evolving fields the caller built it with; they are the zero values
\* when the persona was built from its identity fields alone.
C13_RegisteredAsBuilt ==
    [][Registration =>
          LET p == StoredNext(Registered.name)
          IN  /\ p.invocation_count = Registered.invocation_count
              /\ p.evolution_stage = Registered.evolution_stage
              /\ p.accumulated_context = Registered.accumulated_context
              /\ p.learned_phrases = Registered.learned_phrases
              /\ p.developed_traits = Registered.developed_traits
              /\ BuiltWithDefaults(Registered) => ZeroValues(p)]_vars

\* ORION, invoked before, has been registered again from the preset
C13_Witness ==
    /\ last.op = "register_persona"
    /\ last.args[1] = Fresh("ORION")
    /\ ledger["ORION"].times = 2
    /\ ledger["ORION"].total >= 1
    /\ ZeroValues(Stored("ORION"))

\* the identity fields of a persona
Identity(p) == <<p.name, p.role, p.voice, p.essence, p.constraints, p.sample_phrases>>

\* C14: log_invocation and the stage transition it may trigger never change
\* a persona's identity fields: name, role, voice, essence, constraints and
\* sample_phrases of every persona are the same after the call as before it.
C14_InvocationKeepsIdentityFields ==
    [][last'.op = "log_invocation" =>
          /\ DictKeys(personas') = DictKeys(personas)
          /\ \A n \in DictKeys(personas) :
                 Identity(StoredNext(n)) = Identity(Stored(n))]_vars

\* an invocation of ORION, beside another persona, has just made it evolve
C14_Witness ==
    /\ last.op = "log_invocation"
    /\ last.args[1] = "ORION"
    /\ Len(personas) = 2
    /\ events # <<>>
    /\ events[Len(events)].event_type = "evolution"
    /\ Stored("ORION").learned_phrases # <<>>
    /\ Identity(Stored("ORION")) = Identity(Fresh("ORION"))

ReadOnlyOperations ==
    {"generate_mythological_report", "export_evolved_presets", "suggest_emergence"}

\* C15: generate_report, export_presets and suggest_emergence are read-only:
\* a call of any of them leaves the Persona Store, the Event Log and the
\* durable documents unchanged.
C15_ReportExportEmergenceReadOnly ==
    [][last'.op \in ReadOnlyOperations =>
          UNCHANGED <<personas, events, generated_lore,
                      personas_file, events_file, lore_file>>]_vars

\* the export of a store holding a persona that has learned phrases has
\* returned its text
C15_Witness ==
    /\ last.op = "export_evolved_presets"
    /\ last.returned # <<>>
    /\ \E n \in DictKeys(personas) : Stored(n).learned_phrases # <<>>
    /\ personas_file.exists

\* the first index from `from` on at which text holds a line of `lines`, or
\* Len(text) + 1 when there is none
IndexOf(text, lines, from) ==
    LET found == {i \in from..Len(text) : text[i] \in lines}
    IN  IF found = {} THEN Len(text) + 1
        ELSE CHOOSE i \in found : \A j \in found : i <= j

\* the lines of a text after line `from`, up to the first line of `stops`
Block(text, from, stops) == SubSeq(text, from + 1, IndexOf(text, stops, from + 1) - 1)

\* reading an export back: the block of one persona, from the line after its
\* name to the empty line that closes it
ExportedBlock(text, name) ==
    Block(text, IndexOf(text, {"  " \o name \o ":"}, 1), {""})

\* the items listed under a heading of a block, up to the next heading
ItemsUnder(block, heading, headings) ==
    LET at == IndexOf(block, {heading}, 1)
    IN  IF at > Len(block) THEN <<>> ELSE Block(block, at, headings \ {heading})

ExportHeadings == {"    constraints:", "    sample_phrases:", "    developed_traits:"}

\* a phrase as an item of the export
ExportItem(phrase) == "      - \"" \o phrase \o "\""

\* C16: export_presets lists, for each persona, the combined phrase list: all
\* original sample_phrases in their stored order, then all learned_phrases in
\* their stored order, none dropped, none duplicated away, none reordered.
C16_ExportListsSampleThenLearnedPhrases ==
    [][last'.op = "export_evolved_presets" =>
          \A n \in DictKeys(personas') :
              LET p == StoredNext(n)
                  all == p.sample_phrases \o p.learned_phrases
                  block == ExportedBlock(last'.returned, n)
              IN  ItemsUnder(block, "    sample_phrases:", ExportHeadings)
                      = [i \in DOMAIN all |-> ExportItem(all[i])]]_vars

\* ORION, with its 2 original phrases and 1 learned phrase, exported as 3
\* phrases: original 1, original 2, learned 1
C16_Witness ==
    /\ last.op = "export_evolved_presets"
    /\ DictHas(personas, "ORION")
    /\ Len(Stored("ORION").sample_phrases) = 2
    /\ Len(Stored("ORION").learned_phrases) = 1
    /\ ItemsUnder(ExportedBlock(last.returned, "ORION"),
                  "    sample_phrases:", ExportHeadings)
           = << ExportItem(Stored("ORION").sample_phrases[1]),
                ExportItem(Stored("ORION").sample_phrases[2]),
                ExportItem(Stored("ORION").learned_phrases[1]) >>

\* the line that opens a persona's section of the report
ReportHeading(p) == "\n## " \o p.name \o " - " \o p.role

ReportHeadings == {"\nDeveloped Traits:", "\nLearned Phrases:"}

\* reading a report back: the section of one persona, from the line after
\* its heading to the empty line that closes it
ReportedSection(text, p) == Block(text, IndexOf(text, {ReportHeading(p)}, 1), {""})

\* an entry of a list of the report
ReportItem(entry) == "  * " \o entry

\* C17: generate_report for a single named persona contains that persona's
\* name, role, current evolution_stage, current invocation_count and every
\* entry of its developed_traits and learned_phrases in stored order, and no
\* entry of any other persona in the store.
C17_ReportOfNamedPersonaOnly ==
    [][(/\ last'.op = "generate_mythological_report"
        /\ last'.args[1] # None
        /\ \A n \in last'.args[1] : DictHas(personas, n))
       => \A n \in last'.args[1] :
            LET p == Stored(n)
                text == last'.returned
                section == ReportedSection(text, p)
            IN  /\ last'.raised = ""
                /\ IndexOf(text, {ReportHeading(p)}, 1) <= Len(text)
                /\ Len(section) >= 2
                /\ section[1] = "Evolution Stage: " \o ToString(p.evolution_stage)
                /\ section[2] = "Invocations: " \o ToString(p.invocation_count)
                /\ ItemsUnder(section, "\nDeveloped Traits:", ReportHeadings)
                       = [i \in DOMAIN p.developed_traits |->
                              ReportItem(p.developed_traits[i])]
                /\ ItemsUnder(section, "\nLearned Phrases:", ReportHeadings)
                       = [i \in DOMAIN p.learned_phrases |->
                              ReportItem(p.learned_phrases[i])]
                /\ \A o \in DictKeys(personas) \ {n} :
                       \A i \in DOMAIN text : text[i] # ReportHeading(Stored(o))
                /\ Len(text) = IndexOf(text, {ReportHeading(p)}, 1) + Len(section) + 1]_vars

\* the report asked for the persona named "" holds ORION's section as well
C17_Witness ==
    /\ last.op = "generate_mythological_report"
    /\ last.args[1] = Some("")
    /\ DictHas(personas, "") /\ DictHas(personas, "ORION")
    /\ \E i \in DOMAIN last.returned : last.returned[i] = ReportHeading(Stored(""))
    /\ \E i \in DOMAIN last.returned : last.returned[i] = ReportHeading(Stored("ORION"))

\* C19: a log_invocation call on a registered persona records the invocation
\* as given: the context becomes the last element of the persona's
\* accumulated_context, the earlier elements unchanged, and the invocation
\* event appended carries the call's persona_name, context, emotional_weight
\* and tags, absent tags being recorded as the empty list.
C19_InvocationRecordedAsGiven ==
    [][\A n \in RegNames : ValidInvocation(n) =>
          LET context == last'.args[2]
              tags == last'.args[3]
              emotional_weight == last'.args[4]
              event == events'[Len(events) + 1]
          IN  /\ StoredNext(n).accumulated_context
                     = Append(Stored(n).accumulated_context, context)
              /\ Len(events') > Len(events)
              /\ event.event_type = "invocation"
              /\ event.persona_name = n
              /\ event.context = context
              /\ event.emotional_weight = emotional_weight
              /\ event.tags = (IF tags = None THEN <<>> ELSE CHOOSE t \in tags : TRUE)]_vars

\* a second invocation, without tags, has been recorded after a tagged one
C19_Witness ==
    /\ last.op = "log_invocation"
    /\ last.args[3] = None
    /\ DictHas(personas, last.args[1])
    /\ Stored(last.args[1]).accumulated_context = <<DemoInvocation.context, last.args[2]>>
    /\ Len(events) = 2
    /\ events[1].tags = <<"academic">>
    /\ events[2].tags = <<>>
    /\ events[2].context = last.args[2]

\* C20: a single log_invocation call triggers at most one stage transition:
\* evolution_stage has grown by 0 or 1 after the call, never more, and the
\* Event Log by exactly 1 event or exactly 2.
C20_AtMostOneTransitionPerCall ==
    [][\A n \in RegNames : ValidInvocation(n) =>
          /\ StoredNext(n).evolution_stage - Stored(n).evolution_stage \in {0, 1}
          /\ Len(events') - Len(events) \in {1, 2}
          /\ Len(events') - Len(events)
                 = 1 + StoredNext(n).evolution_stage - Stored(n).evolution_stage
          /\ \A o \in DictKeys(personas) \ {n} :
                 StoredNext(o).evolution_stage = Stored(o).evolution_stage]_vars

\* the 25th invocation of ORION has taken it from stage 1 to stage 2 and the
\* log from 25 events to 27
C20_Witness ==
    /\ last.op = "log_invocation"
    /\ last.args[1] = "ORION"
    /\ RegisteredOnceFromZero("ORION")
    /\ Stored("ORION").invocation_count = 25
    /\ Stored("ORION").evolution_stage = 2
    /\ Len(events) = 27
    /\ events[26].event_type = "invocation"
    /\ events[27].event_type = "evolution"
    /\ Len(last.printed) = 4

(***************************************************************************)
(* Concurrent callers.  Two callers run log_invocation on the same engine  *)
(* and the same persona with no lock, as the source has none; a step is    *)
(* one statement of lines 141-164 and 184-212, the load and the store of   *)
(* each += taken apart.  The threshold loop and the two appends of a       *)
(* transition are each taken as one step: fewer interleavings than threads *)
(* have, so every state reached here is one that threads can reach.        *)
(***************************************************************************)
Shared == "ORION"

\* invocations of the shared persona logged before the two callers start
StartCounts == {8, 9}

\* a data directory no run has written to yet, and no engine on it
EmptyDirectory ==
    [personas |-> <<>>, events |-> <<>>, generated_lore |-> <<>>,
     personas_file |-> Absent, events_file |-> Absent, lore_file |-> Absent,
     clock |-> 0, printed |-> <<>>, returned |-> <<>>, raised |-> ""]

\* the engine after k more invocations of the shared persona, one by one
RECURSIVE AfterInvocations(_, _)
AfterInvocations(m, k) ==
    IF k = 0 THEN m
    ELSE log_invocation([AfterInvocations(m, k - 1) EXCEPT !.printed = <<>>],
                        Shared, DemoInvocation.context, DemoInvocation.tags,
                        DemoInvocation.emotional_weight,
                        CHOOSE r \in DemoDraws : TRUE)

\* the engine constructed, the shared persona registered from its preset and
\* invoked k times; the callers have not started
InitConcurrent ==
    \E k \in StartCounts :
        LET m == AfterInvocations(
                     register_persona(__init__(EmptyDirectory), Fresh(Shared)), k)
        IN  /\ personas = m.personas
            /\ events = m.events
            /\ generated_lore = m.generated_lore
            /\ personas_file = m.personas_file
            /\ events_file = m.events_file
            /\ lore_file = m.lore_file
            /\ clock = m.clock
            /\ last = [op |-> "log_invocation",
                       args |-> <<Shared, DemoInvocation.context, DemoInvocation.tags,
                                  DemoInvocation.emotional_weight>>,
                       printed |-> m.printed, returned |-> <<>>, raised |-> ""]
            /\ ledger = [n \in RegNames |->
                            IF n = Shared
                            THEN [times |-> 1, as_registered |-> Some(Fresh(Shared)),
                                  calls |-> k, total |-> k]
                            ELSE NeverRegistered]
            /\ callers = [c \in Callers |-> Idle]
            /\ overlapped = FALSE

\* caller c is inside log_invocation
Inside(c) == callers[c].pc \notin {"idle", "done"}

\* caller c takes a step from line `from` to line `to`, keeping in `loaded`
\* what the step has loaded or printed
Advance(c, from, to, loaded) ==
    /\ callers[c].pc = from
    /\ callers' = [callers EXCEPT ![c] = [loaded EXCEPT !.pc = to]]
    /\ overlapped' = (overlapped \/ \E d \in Callers \ {c} : Inside(d))

\* the shared persona replaced by p in the store
Put(p) == personas' = DictSet(personas, Shared, p)

\* lines 141-145: the name is known, persona = self.personas[persona_name]
Enter(c) ==
    /\ DictHas(personas, Shared)
    /\ Advance(c, "idle", "load_count", callers[c])
    /\ UNCHANGED <<personas, events, generated_lore, personas_file, events_file,
                   lore_file, clock, last, ledger>>

\* line 146, persona.invocation_count += 1: the load
LoadCount(c) ==
    /\ Advance(c, "load_count", "store_count",
               [callers[c] EXCEPT !.invocation_count = Stored(Shared).invocation_count])
    /\ UNCHANGED <<personas, events, generated_lore, personas_file, events_file,
                   lore_file, clock, last, ledger>>

\* line 146, persona.invocation_count += 1: the store
StoreCount(c) ==
    /\ Advance(c, "store_count", "append_context", callers[c])
    /\ Put([Stored(Shared) EXCEPT
               !.invocation_count = callers[c].invocation_count + 1])
    /\ UNCHANGED <<events, generated_lore, personas_file, events_file,
                   lore_file, clock, last, ledger>>

\* line 147
AppendContext(c) ==
    /\ Advance(c, "append_context", "append_event", callers[c])
    /\ Put([Stored(Shared) EXCEPT
               !.accumulated_context = Append(@, DemoInvocation.context)])
    /\ UNCHANGED <<events, generated_lore, personas_file, events_file,
                   lore_file, clock, last, ledger>>

\* lines 149-157
AppendInvocationEvent(c) ==
    /\ Advance(c, "append_event", "check", callers[c])
    /\ events' = AppendEvent(events,
                     MythologicalEvent(Isoformat(clock), Shared, "invocation",
                                       DemoInvocation.context,
                                       DemoInvocation.emotional_weight,
                                       OrEmpty(DemoInvocation.tags)))
    /\ clock' = clock + 1
    /\ UNCHANGED <<personas, generated_lore, personas_file, events_file,
                   lore_file, last, ledger>>

\* a loop that takes a threshold already passed for one just reached
CrossedOrPast(persona) ==
    \E i \in DOMAIN thresholds :
        /\ persona.invocation_count >= thresholds[i]
        /\ persona.evolution_stage < Len(thresholds)

\* lines 174-175: the loop finds a threshold the persona has just reached
Crossed(persona) ==
    \E i \in DOMAIN thresholds : ShouldEvolve(persona, thresholds[i])

\* lines 160 and 172-177: _check_evolution up to the call of line 176
CheckThresholds(c) ==
    /\ Advance(c, "check",
               IF Crossed(Stored(Shared)) THEN "load_stage" ELSE "save",
               callers[c])
    /\ UNCHANGED <<personas, events, generated_lore, personas_file, events_file,
                   lore_file, clock, last, ledger>>

\* line 185, persona.evolution_stage += 1: the load
LoadStage(c) ==
    /\ Advance(c, "load_stage", "store_stage",
               [callers[c] EXCEPT !.evolution_stage = Stored(Shared).evolution_stage])
    /\ UNCHANGED <<personas, events, generated_lore, personas_file, events_file,
                   lore_file, clock, last, ledger>>

\* line 185, the store, and the print of line 187
StoreStage(c) ==
    /\ Put([Stored(Shared) EXCEPT !.evolution_stage = callers[c].evolution_stage + 1])
    /\ Advance(c, "store_stage", "learn",
               [callers[c] EXCEPT !.printed =
                    Append(@, "EVOLUTION EVENT: " \o Shared \o " reaches stage "
                                  \o ToString(callers[c].evolution_stage + 1))])
    /\ UNCHANGED <<events, generated_lore, personas_file, events_file,
                   lore_file, clock, last, ledger>>

\* lines 190-199: the phrase and the trait, generated and appended
Learn(c, r) ==
    LET p1 == Stored(Shared)
        new_phrase == _generate_phrase(p1, r.phrase)
        p2 == IF new_phrase # ""
              THEN [p1 EXCEPT !.learned_phrases = Append(@, new_phrase)]
              ELSE p1
        new_trait == _generate_trait(p2, r.trait)
        p3 == IF new_trait # ""
              THEN [p2 EXCEPT !.developed_traits = Append(@, new_trait)]
              ELSE p2
    IN  /\ Put(p3)
        /\ Advance(c, "learn", "append_evolution",
                   [callers[c] EXCEPT !.printed =
                        @ \o (IF new_phrase # ""
                              THEN <<"   New phrase learned: " \o new_phrase>>
                              ELSE <<>>)
                          \o (IF new_trait # ""
                              THEN <<"   New trait developed: " \o new_trait>>
                              ELSE <<>>)])
        /\ UNCHANGED <<events, generated_lore, personas_file, events_file,
                       lore_file, clock, last, ledger>>

\* lines 202-210
AppendEvolutionEvent(c) ==
    /\ Advance(c, "append_evolution", "save_evolution", callers[c])
    /\ events' = AppendEvent(events,
                     EvolutionEvent(Isoformat(clock), Shared,
                                    Stored(Shared).evolution_stage))
    /\ clock' = clock + 1
    /\ UNCHANGED <<personas, generated_lore, personas_file, events_file,
                   lore_file, last, ledger>>

\* self._save_state(): the three documents written from the collections
Flush ==
    /\ personas_file' = _save_state(Self).personas_file
    /\ events_file' = _save_state(Self).events_file
    /\ lore_file' = _save_state(Self).lore_file

\* line 212
SaveEvolution(c) ==
    /\ Advance(c, "save_evolution", "save", callers[c])
    /\ Flush
    /\ UNCHANGED <<personas, events, generated_lore, clock, last, ledger>>

\* line 162
Save(c) ==
    /\ Advance(c, "save", "print", callers[c])
    /\ Flush
    /\ UNCHANGED <<personas, events, generated_lore, clock, last, ledger>>

\* line 164, and the return
Return(c) ==
    /\ Advance(c, "print", "done", callers[c])
    /\ last' = [op |-> "log_invocation",
                args |-> <<Shared, DemoInvocation.context, DemoInvocation.tags,
                           DemoInvocation.emotional_weight>>,
                printed |-> Append(callers[c].printed,
                                "Logged invocation: " \o Shared \o " (total: "
                                    \o ToString(Stored(Shared).invocation_count)
                                    \o ")"),
                returned |-> <<>>, raised |-> ""]
    /\ ledger' = [ledger EXCEPT ![Shared].calls = @ + 1, ![Shared].total = @ + 1]
    /\ UNCHANGED <<personas, events, generated_lore, personas_file, events_file,
                   lore_file, clock>>

NextConcurrent ==
    \/ \E c \in Callers : Enter(c)
    \/ \E c \in Callers : LoadCount(c)
    \/ \E c \in Callers : StoreCount(c)
    \/ \E c \in Callers : AppendContext(c)
    \/ \E c \in Callers : AppendInvocationEvent(c)
    \/ \E c \in Callers : CheckThresholds(c)
    \/ \E c \in Callers : LoadStage(c)
    \/ \E c \in Callers : StoreStage(c)
    \/ \E c \in Callers, r \in DemoDraws : Learn(c, r)
    \/ \E c \in Callers : AppendEvolutionEvent(c)
    \/ \E c \in Callers : SaveEvolution(c)
    \/ \E c \in Callers : Save(c)
    \/ \E c \in Callers : Return(c)

SpecConcurrent == InitConcurrent /\ [][NextConcurrent]_vars

\* no caller is inside log_invocation
Quiescent == \A c \in Callers : ~Inside(c)

\* C18: two concurrent log_invocation calls on the same persona, with no
\* mutual exclusion around "read count, compare to threshold, mutate,
\* persist", can end with the evolution of one threshold triggered twice or
\* with an increment lost (invocation_count below the number of completed
\* calls); when each call runs as one unit, no step of another caller between
\* its entry and its return, neither happens: the count is the number of
\* completed calls and threshold 10, once reached, has one evolution event.
C18_SerialCallsNeitherDoubleTriggerNorLose ==
    (Quiescent /\ ~overlapped) =>
        /\ Stored(Shared).invocation_count = ledger[Shared].total
        /\ CountEvents(events, Shared, "invocation") = ledger[Shared].total
        /\ CountEvents(events, Shared, "evolution")
               = (IF Stored(Shared).invocation_count >= 10 THEN 1 ELSE 0)
        /\ Stored(Shared).evolution_stage = CountEvents(events, Shared, "evolution")

\* both callers have returned from overlapping calls that started at count
\* 9: the count is 10 after 11 completed calls and the log holds two
\* evolution events for threshold 10
C18_Witness ==
    /\ \A c \in Callers : callers[c].pc = "done"
    /\ overlapped
    /\ ledger[Shared].total = 11
    /\ Stored(Shared).invocation_count = 10
    /\ CountEvents(events, Shared, "evolution") = 2

\* C21: every evolution event of the Event Log is immediately preceded by an
\* invocation event with the same persona_name, the event of the invocation
\* that brought the count to the threshold; no evolution event is first in
\* the log or follows an event of another persona.
C21_EvolutionFollowsItsInvocation ==
    /\ [](\A k \in DOMAIN events :
             events[k].event_type = "evolution" =>
                 /\ k > 1
                 /\ events[k - 1].event_type = "invocation"
                 /\ events[k - 1].persona_name = events[k].persona_name)
    /\ [][\A n \in RegNames :
             (ValidInvocation(n)
                 /\ StoredNext(n).evolution_stage # Stored(n).evolution_stage)
             => /\ Len(events') = Len(events) + 2
                /\ events'[Len(events) + 1].event_type = "invocation"
                /\ events'[Len(events) + 1].persona_name = n
                /\ events'[Len(events) + 1].context = last'.args[2]
                /\ events'[Len(events) + 2].event_type = "evolution"
                /\ events'[Len(events) + 2].persona_name = n
                /\ StoredNext(n).invocation_count \in ThresholdSet]_vars

\* the 50th invocation of ORION and the evolution it caused close the log
C21_Witness ==
    /\ DictHas(personas, "ORION")
    /\ Stored("ORION").invocation_count = 50
    /\ Len(events) = 53
    /\ events[52].event_type = "invocation"
    /\ events[52].persona_name = "ORION"
    /\ events[53].event_type = "evolution"
    /\ events[53].persona_name = "ORION"
    /\ events[53].tags = <<"evolution", "stage_3">>

\* the thresholds a count has reached
ThresholdsReached(invocation_count) == {t \in ThresholdSet : t <= invocation_count}

\* C22: with the single-increment log_invocation no threshold is skipped: for
\* every persona registered with zero counters, in every reachable state
\* evolution_stage is the number of thresholds among 10, 25, 50, 100, 250
\* that are less than or equal to its invocation_count.
C22_NoThresholdSkipped ==
    \A n \in DictKeys(personas) :
        (AsRegistered(n).invocation_count = 0 /\ AsRegistered(n).evolution_stage = 0)
        => Stored(n).evolution_stage
               = Cardinality(ThresholdsReached(Stored(n).invocation_count))

\* ORION, registered with zero counters, is past the fourth threshold and
\* short of the fifth
C22_Witness ==
    /\ DictHas(personas, "ORION")
    /\ AsRegistered("ORION").invocation_count = 0
    /\ AsRegistered("ORION").evolution_stage = 0
    /\ Stored("ORION").invocation_count = 249
    /\ Stored("ORION").evolution_stage = 4
    /\ ThresholdsReached(249) = {10, 25, 50, 100}

\* the entries of a list
Entries(list) == {list[i] : i \in DOMAIN list}

C25_InvocationLeavesOtherPersonas ==
    /\ [][last'.op = "log_invocation" =>
             \A b \in DictKeys(personas) \ {last'.args[1]} :
                 /\ DictHas(personas', b)
                 /\ StoredNext(b) = Stored(b)]_vars
    /\ [](\A b \in DictKeys(personas) :
             Stored(b).invocation_count
                 = AsRegistered(b).invocation_count + ledger[b].calls)

\* X has been invoked beside ORION, which is as it was registered, one
\* invocation short of its fifth threshold
C25_Witness ==
    /\ last.op = "log_invocation"
    /\ last.args[1] = "X"
    /\ DictHas(personas, "X") /\ DictHas(personas, "ORION")
    /\ Stored("X").invocation_count = AsRegistered("X").invocation_count + 1
    /\ Stored("ORION") = AsRegistered("ORION")
    /\ Stored("ORION").invocation_count = 249

(***************************************************************************)
(* A persona that keeps being invoked.  One persona is registered and the  *)
(* caller then logs invocation after invocation of it, as the loops of the *)
(* demos do; the caller never stops short of MaxKeptInvoked invocations.   *)
(***************************************************************************)
MaxKeptInvoked == 260

\* the personas registered: two presets, and one registered with a count
KeptInvoked == { Fresh("ORION"), Fresh("X"), Veteran("X", 10, 0, <<>>, <<>>) }

RegisterOnce(persona) ==
    /\ personas = <<>>
    /\ RegisterPersona(persona)

KeepInvoking(persona_name, r) ==
    /\ DictHas(personas, persona_name)
    /\ Stored(persona_name).invocation_count < MaxKeptInvoked
    /\ LogInvocation(persona_name, DemoInvocation.context, DemoInvocation.tags,
                     DemoInvocation.emotional_weight, r)

NextKeptInvoked ==
    \/ \E persona \in KeptInvoked : RegisterOnce(persona)
    \/ \E persona_name \in RegNames, r \in DemoDraws : KeepInvoking(persona_name, r)

\* one more invocation of the registered persona is counted: what a step of
\* KeepInvoking does to the history, and when it can be taken
OneMoreInvocation ==
    \E persona_name \in RegNames :
        /\ DictHas(personas, persona_name)
        /\ Stored(persona_name).invocation_count < MaxKeptInvoked
        /\ ledger' = [ledger EXCEPT ![persona_name].calls = @ + 1,
                                    ![persona_name].total = @ + 1]

\* the caller's loop goes on: the next invocation is eventually logged
SpecKeptInvoked ==
    /\ Init
    /\ [][NextKeptInvoked]_vars
    /\ WF_ledger(OneMoreInvocation)

\* from stage 5 on, an invocation changes neither the stage nor what the
\* persona has learned and developed
FrozenAtFive ==
    [][\A n \in DictKeys(personas) :
          (Stored(n).evolution_stage = 5 /\ DictHas(personas', n))
          => /\ StoredNext(n).evolution_stage = 5
             /\ StoredNext(n).learned_phrases = Stored(n).learned_phrases
             /\ StoredNext(n).developed_traits = Stored(n).developed_traits]_vars

====
